---- MODULE Spec2Model ----
(***************************************************************************)
(* MultiQC: the RSeQC junction_annotation submodule (parse_reports) and    *)
(* the VerifyBAMID module (MultiqcModule), modelled as state machines.     *)
(*                                                                         *)
(* A junction_annotation report is a sequence of lines; a selfSM file is a *)
(* sequence of lines, each line the sequence of its tab-separated tokens.  *)
(* A dataset is a function from sample names to records, a record a        *)
(* function from field names to values.                                    *)
(***************************************************************************)
EXTENDS Integers, Sequences, FiniteSets, TLC

\* ------------------------------------------------------------------ bounds
\* Lines of a junction_annotation report (SpecJA).
MaxLines == 3
\* Discovered files of one module invocation (Spec).
MaxFiles == 2
\* Columns of a selfSM header and data rows of a selfSM file (SpecSelfSM).
MaxCols == 3
MaxRows == 2

\* The empty dict().
EmptyDict == [k \in {} |-> 0]

\* ------------------------------------------- RSeQC junction_annotation.py
\* The keys of the regexes dict, in the order the code declares them.
JAKeys ==
  <<"total_splicing_events", "known_splicing_events",
    "partial_novel_splicing_events", "novel_splicing_events",
    "total_splicing_junctions", "known_splicing_junctions",
    "partial_novel_splicing_junctions", "novel_splicing_junctions">>

JAKeySet == {JAKeys[i] : i \in 1..Len(JAKeys)}

\* The counts a report line may carry: a total is 0 or 100, a part 0 or 40,
\* and a line of digits alone carries 40.
JACounts(k) ==
  IF k \in {"total_splicing_events", "total_splicing_junctions"} THEN {0, 100}
  ELSE IF k = "" THEN {40}
  ELSE {0, 40}

\* A line of a report, by what the eight patterns can see of it:
\*   field  "<label of key>:<whitespace><digits>"   (the pattern of key matches)
\*   label  "<label of key>:" and nothing but whitespace after it
\*   digits whitespace, then digits, to the end of the line
\*   blank  whitespace only
\*   other  anything else (no pattern matches any part of it)
JALine(kind, key, n) == [kind |-> kind, key |-> key, n |-> n]

JALines ==
  UNION {{JALine("field", k, n) : n \in JACounts(k)} : k \in JAKeySet}
    \cup {JALine("label", k, 0) : k \in JAKeySet}
    \cup {JALine("digits", "", n) : n \in JACounts("")}
    \cup {JALine("blank", "", 0), JALine("other", "", 0)}

NoMatch == -1

\* \s*(\d+)$ continued on the lines after a label line: \s* runs over the
\* line break and any blank lines, and the digits must then fill a line.
RECURSIVE DigitsAfter(_, _)
DigitsAfter(text, i) ==
  IF i > Len(text) THEN NoMatch
  ELSE IF text[i].kind = "blank" THEN DigitsAfter(text, i + 1)
  ELSE IF text[i].kind = "digits" THEN text[i].n
  ELSE NoMatch

\* The pattern of key k tried with ^ at the start of line i.
MatchAt(k, text, i) ==
  IF text[i].key # k THEN NoMatch
  ELSE IF text[i].kind = "field" THEN text[i].n
  ELSE IF text[i].kind = "label" THEN DigitsAfter(text, i + 1)
  ELSE NoMatch

\* re.search(r, f['f'], re.MULTILINE) and int(r_search.group(1)): the
\* leftmost match, NoMatch when there is none.
RECURSIVE SearchFrom(_, _, _)
SearchFrom(k, text, i) ==
  IF i > Len(text) THEN NoMatch
  ELSE IF MatchAt(k, text, i) # NoMatch THEN MatchAt(k, text, i)
  ELSE SearchFrom(k, text, i + 1)

re_search(k, text) == SearchFrom(k, text, 1)

\* The dict d after the loop over regexes.items().
ExtractFields(text) ==
  LET found == {k \in JAKeySet : re_search(k, text) # NoMatch}
  IN  [k \in found |-> re_search(k, text)]

RECURSIVE GCD(_, _)
GCD(a, b) == IF b = 0 THEN a ELSE GCD(b, a % b)

\* (float(part) / t) * 100.0 for t # 0, as the exact fraction in lowest
\* terms (the rounding of the floating-point division is not represented).
Pct(part, t) ==
  LET g == GCD(part * 100, t)
  IN  [num |-> (part * 100) \div g, den |-> t \div g]

\* The keys of one group: its total, and each part with its _pct key.
EventParts ==
  <<[part |-> "known_splicing_events", pct |-> "known_splicing_events_pct"],
    [part |-> "partial_novel_splicing_events",
     pct |-> "partial_novel_splicing_events_pct"],
    [part |-> "novel_splicing_events", pct |-> "novel_splicing_events_pct"]>>

JunctionParts ==
  <<[part |-> "known_splicing_junctions", pct |-> "known_splicing_junctions_pct"],
    [part |-> "partial_novel_splicing_junctions",
     pct |-> "partial_novel_splicing_junctions_pct"],
    [part |-> "novel_splicing_junctions", pct |-> "novel_splicing_junctions_pct"]>>

JAGroups ==
  <<[total |-> "total_splicing_events", parts |-> EventParts],
    [total |-> "total_splicing_junctions", parts |-> JunctionParts]>>

\* Mutant of GroupTotal: the junctions block reads the events total.
GroupTotal_eventsOnly(g) == "total_splicing_events"

\* The total whose presence opens the block of a group, and divides in it.
GroupTotal(g) == JAGroups[g].total

\* One "if 'total_...' in d:" block. The result is [d, err]: err is TRUE when
\* a division raised ZeroDivisionError, and d is then the dict as it stood.
PctBlock(d, g) ==
  LET total == GroupTotal(g)
      parts == JAGroups[g].parts
      present == {j \in 1..Len(parts) : parts[j].part \in DOMAIN d}
  IN  IF total \notin DOMAIN d THEN [d |-> d, err |-> FALSE]
      ELSE IF present = {} THEN [d |-> d, err |-> FALSE]
      ELSE IF d[total] = 0 THEN [d |-> d, err |-> TRUE]
      ELSE LET pk == {parts[j].pct : j \in present}
               src == [p \in pk |->
                         (CHOOSE j \in present : parts[j].pct = p)]
           IN  [d |-> [k \in DOMAIN d \cup pk |->
                         IF k \in pk
                           THEN Pct(d[parts[src[k]].part], d[total])
                           ELSE d[k]],
                err |-> FALSE]

\* "Calculate some percentages": the events block, then the junctions block.
CalcPercentages(d) ==
  LET e == PctBlock(d, 1)
  IN  IF e.err THEN e ELSE PctBlock(e.d, 2)

\* One iteration of the loop over the files, up to the merge: [d, err].
ParseReport(text) == CalcPercentages(ExtractFields(text))

\* ------------------------------------------------ verifybamid.py: parsing
\* float(v) on the tokens of the model, as the repr of the float it returns;
\* "ValueError" when float(v) raises it.
float_repr(v) ==
  CASE v = "0.02" -> "0.02"
    [] v = "2e-2" -> "0.02"
    [] v = "1" -> "1.0"
    [] OTHER -> "ValueError"

\* A value of a record: a float (v its repr) or a string (v the literal).
FloatValue(r) == [kind |-> "float", v |-> r]
StrValue(t) == [kind |-> "str", v |-> t]

\* Mutant of ToValue: the cell "NA" is coerced to the number zero.
ToValue_NAasZero(v) ==
  IF v = "NA" THEN FloatValue("0.0")
  ELSE IF float_repr(v) # "ValueError" THEN FloatValue(float_repr(v))
  ELSE StrValue(v)

\* try: float(v) / except ValueError: v
ToValue(v) ==
  IF float_repr(v) # "ValueError" THEN FloatValue(float_repr(v)) ELSE StrValue(v)

\* BaseMultiqcModule.clean_s_name(s, root): the host's sample-name cleaning,
\* which strips a known file extension (directories are not prepended).
clean_s_name(s, root) == IF s = "X.bam" THEN "X" ELSE s

\* d[k] = v on a dict.
Put(d, k, v) == [x \in DOMAIN d \cup {k} |-> IF x = k THEN v ELSE d[x]]

\* Mutant of IsChipValue: "CHIP" is looked for inside the column name.
IsChipValue_substring(h, v) == h \in {"CHIP", "CHIP_ID"} /\ v # "NA"

\* "CHIP" in [headers[i]] and v != "NA"
IsChipValue(h, v) == h = "CHIP" /\ v # "NA"

\* headers = None
NoHeaders == <<>>

\* The loop "for i, v in enumerate(s)" from position i on (positions count
\* from 1 here: position 1 is the name). [rec, hide, err]: err is TRUE when
\* headers[i] raised IndexError, rec and hide are then as they stood.
RECURSIVE ParseCells(_, _, _, _, _)
ParseCells(hdrs, s, i, rec, hide) ==
  IF i > Len(s) THEN [rec |-> rec, hide |-> hide, err |-> FALSE]
  ELSE IF i = 1 THEN ParseCells(hdrs, s, i + 1, rec, hide)
  ELSE IF i > Len(hdrs) THEN [rec |-> rec, hide |-> hide, err |-> TRUE]
  ELSE ParseCells(hdrs, s, i + 1, Put(rec, hdrs[i], ToValue(s[i])),
                  IF IsChipValue(hdrs[i], s[i]) THEN FALSE ELSE hide)

\* The body of "for l in f['f'].splitlines()" for one line, s its tokens.
\* st is [headers, parsed_data, hide, err].
ParseLine(st, s, root) ==
  IF st.headers = NoHeaders THEN [st EXCEPT !.headers = s]
  ELSE LET s_name == clean_s_name(s[1], root)
           c == ParseCells(st.headers, s, 1, EmptyDict, st.hide)
       IN  [headers |-> st.headers,
            parsed_data |-> Put(st.parsed_data, s_name, c.rec),
            hide |-> c.hide,
            err |-> c.err]

\* The state of parse_selfsm before the first line.
ParseStart(hide) ==
  [headers |-> NoHeaders, parsed_data |-> EmptyDict, hide |-> hide, err |-> FALSE]

RECURSIVE ParseLines(_, _, _, _)
ParseLines(st, lines, i, root) ==
  IF i > Len(lines) \/ st.err THEN st
  ELSE ParseLines(ParseLine(st, lines[i], root), lines, i + 1, root)

\* parse_selfsm(f) with self.hide_chip_columns = hide on entry.
parse_selfsm(f, hide) == ParseLines(ParseStart(hide), f.lines, 1, f.root)

\* ---------------------------------------------------------------- state
VARIABLES
  module,                   \* "rseqc" | "verifybamid": the module invoked
  ignore,                   \* the sample names the configuration ignores
  pc,                       \* "loop": between files; "parse": in parse_selfsm;
                            \* "end": the invocation has returned or raised
  err,                      \* "" or the exception the invocation ended with
  nfiles,                   \* discovered files consumed so far
  junction_annotation_data, \* self.junction_annotation_data
  sample_count,             \* self.sample_count
  verifybamid_data,         \* self.verifybamid_data
  hide_chip_columns,        \* self.hide_chip_columns
  headers,                  \* parse_selfsm: headers
  parsed_data,              \* parse_selfsm: parsed_data
  debug_log,                \* duplicate diagnostics logged, per sample name
  info_log,                 \* the counts log.info reported
  data_sources,             \* calls of add_data_source
  data_files,               \* calls of write_data_file
  general_stats,            \* calls of general_stats_addcols
  sections,                 \* self.sections
  yielded,                  \* history: files merged so far, per sample name
  latest,                   \* history: the record of the last file merged, per name
  chip_value_seen,          \* history: a processed row held a CHIP value
  ja_text, ja_out,          \* SpecJA: a report and what parsing it gives
  sm_file, sm_out           \* SpecSelfSM: a selfSM file and parse_selfsm's result

vars ==
  <<module, ignore, pc, err, nfiles, junction_annotation_data, sample_count,
    verifybamid_data, hide_chip_columns, headers, parsed_data, debug_log,
    info_log, data_sources, data_files, general_stats, sections, yielded,
    latest, chip_value_seen, ja_text, ja_out, sm_file, sm_out>>

pipeline_vars ==
  <<module, ignore, pc, err, nfiles, junction_annotation_data, sample_count,
    verifybamid_data, hide_chip_columns, headers, parsed_data, debug_log,
    info_log, data_sources, data_files, general_stats, sections, yielded,
    latest, chip_value_seen>>

\* The sample names of the model ("" is the name of an empty line).
Names == {"X", "Y", ""}

\* The ignore lists a configuration may hold.
IgnoreLists == {{}, {"X"}}

Pending == [done |-> FALSE]

\* The pipeline before the first file: parse_reports after "Set up vars",
\* MultiqcModule.__init__ after self.verifybamid_data = dict().
InitPipeline(m, ig) ==
  /\ module = m
  /\ ignore = ig
  /\ pc = "loop"
  /\ err = ""
  /\ nfiles = 0
  /\ junction_annotation_data = EmptyDict
  /\ sample_count = 0
  /\ verifybamid_data = EmptyDict
  /\ hide_chip_columns = TRUE
  /\ headers = NoHeaders
  /\ parsed_data = EmptyDict
  /\ debug_log = [n \in Names |-> 0]
  /\ info_log = <<>>
  /\ data_sources = 0
  /\ data_files = <<>>
  /\ general_stats = <<>>
  /\ sections = <<>>
  /\ yielded = [n \in Names |-> 0]
  /\ latest = EmptyDict
  /\ chip_value_seen = FALSE

\* ------------------------------------------------ SpecJA: one report parsed
\* The report is read line by line, then parsed as one iteration of the loop
\* of parse_reports does.
InitJA ==
  /\ InitPipeline("rseqc", {})
  /\ ja_text = <<>>
  /\ ja_out = Pending
  /\ sm_file = [root |-> ".", lines |-> <<>>]
  /\ sm_out = Pending

JA_ReadLine(l) ==
  /\ ~ja_out.done
  /\ Len(ja_text) < MaxLines
  /\ ja_text' = Append(ja_text, l)
  /\ UNCHANGED <<pipeline_vars, ja_out, sm_file, sm_out>>

JA_Parse ==
  /\ ~ja_out.done
  /\ ja_out' = [done |-> TRUE, d |-> ParseReport(ja_text).d,
                err |-> ParseReport(ja_text).err]
  /\ UNCHANGED <<pipeline_vars, ja_text, sm_file, sm_out>>

NextJA ==
  \/ \E l \in JALines : JA_ReadLine(l)
  \/ JA_Parse

SpecJA == InitJA /\ [][NextJA]_vars

\* ------------------------------------------- SpecSelfSM: one file parsed
SMFirstColumn == "#SEQ_ID"
SMHeaderNames == {"CHIP", "FREEMIX"}
SMNameTokens == {"X", "X.bam", "Y"}
SMCells == {"NA", "1"}

\* The rows of n tokens: a name token, then cells.
SMRows(n) ==
  {r \in [1..n -> SMNameTokens \cup SMCells] :
     /\ r[1] \in SMNameTokens
     /\ \A i \in 2..n : r[i] \in SMCells}

\* The file is written column by column (the header line), then row by row,
\* each row of as many tokens as the header; then parse_selfsm reads it.
InitSelfSM ==
  /\ InitPipeline("verifybamid", {})
  /\ ja_text = <<>>
  /\ ja_out = Pending
  /\ sm_file = [root |-> ".", lines |-> <<>>]
  /\ sm_out = Pending

SM_AddColumn(h) ==
  /\ ~sm_out.done
  /\ Len(sm_file.lines) <= 1
  /\ IF sm_file.lines = <<>>
       THEN /\ h = SMFirstColumn
            /\ sm_file' = [sm_file EXCEPT !.lines = <<<<h>>>>]
       ELSE /\ h \in SMHeaderNames
            /\ Len(sm_file.lines[1]) < MaxCols
            /\ sm_file' = [sm_file EXCEPT !.lines[1] = Append(@, h)]
  /\ UNCHANGED <<pipeline_vars, ja_text, ja_out, sm_out>>

SM_AddRow(r) ==
  /\ ~sm_out.done
  /\ Len(sm_file.lines) >= 1
  /\ Len(sm_file.lines) - 1 < MaxRows
  /\ Len(r) = Len(sm_file.lines[1])
  /\ sm_file' = [sm_file EXCEPT !.lines = Append(@, r)]
  /\ UNCHANGED <<pipeline_vars, ja_text, ja_out, sm_out>>

SM_Parse ==
  /\ ~sm_out.done
  /\ LET r == parse_selfsm(sm_file, TRUE)
     IN  sm_out' = [done |-> TRUE, parsed_data |-> r.parsed_data,
                    hide |-> r.hide, err |-> r.err]
  /\ UNCHANGED <<pipeline_vars, ja_text, ja_out, sm_file>>

NextSelfSM ==
  \/ \E h \in {SMFirstColumn} \cup SMHeaderNames : SM_AddColumn(h)
  \/ \E r \in (IF sm_file.lines = <<>> THEN {}
                ELSE SMRows(Len(sm_file.lines[1]))) : SM_AddRow(r)
  \/ SM_Parse

SpecSelfSM == InitSelfSM /\ [][NextSelfSM]_vars

\* --------------------------------------------- Spec: a module invocation
\* The host's collaborators.
\* BaseMultiqcModule.ignore_samples(data): data without the ignored names.
ignore_samples(data, ig) == [n \in DOMAIN data \ ig |-> data[n]]

\* The caller of parse_reports (the RSeQC MultiqcModule) raises UserWarning
\* when no sample was found.
rseqc_nothing_found(count) == count = 0

\* len(d)
DictLen(d) == Cardinality(DOMAIN d)

\* The reports find_log_files may hand to parse_reports, as f['f'].
JAField(k, n) == JALine("field", k, n)

JATexts ==
  { <<>>,
    <<JALine("other", "", 0)>>,
    <<JAField("total_splicing_events", 100),
      JAField("known_splicing_events", 40)>>,
    <<JAField("total_splicing_events", 0),
      JAField("known_splicing_events", 0)>>,
    <<JAField("known_splicing_junctions", 40)>>,
    <<JAField("total_splicing_events", 100),
      JAField("known_splicing_events", 100),
      JAField("partial_novel_splicing_events", 0),
      JAField("novel_splicing_events", 0),
      JAField("total_splicing_junctions", 40),
      JAField("known_splicing_junctions", 40),
      JAField("partial_novel_splicing_junctions", 0),
      JAField("novel_splicing_junctions", 0)>> }

\* Their sample names, f['s_name'].
JANames == {"X", "Y"}

\* "if len(d) > 0:" before the merge.
JAKeepsRecord(d) == DictLen(d) > 0

\* "if len(self.junction_annotation_data) > 0:" before the report.
JAHasData(data) == DictLen(data) > 0

\* self.junction_annotation_data[f['s_name']] = d
JAMerge(data, s_name, d) == Put(data, s_name, d)

\* One iteration of "for f in self.find_log_files(...)".
JA_File(s_name, text) ==
  /\ module = "rseqc" /\ pc = "loop" /\ nfiles < MaxFiles
  /\ nfiles' = nfiles + 1
  /\ LET r == ParseReport(text)
     IN  IF r.err
           THEN /\ pc' = "end" /\ err' = "ZeroDivisionError"
                /\ UNCHANGED <<junction_annotation_data, yielded, latest>>
           ELSE /\ UNCHANGED <<pc, err>>
                /\ IF JAKeepsRecord(r.d)
                     THEN /\ junction_annotation_data' =
                               JAMerge(junction_annotation_data, s_name, r.d)
                          /\ yielded' =
                               [yielded EXCEPT ![s_name] = @ + 1]
                          /\ latest' = Put(latest, s_name, r.d)
                     ELSE UNCHANGED <<junction_annotation_data, yielded,
                                      latest>>
  /\ UNCHANGED <<module, ignore, sample_count, verifybamid_data,
                 hide_chip_columns, headers, parsed_data, debug_log, info_log,
                 data_sources, data_files, general_stats, sections,
                 chip_value_seen, ja_text, ja_out, sm_file, sm_out>>

\* plot_bargraph(data, keys, pconfig)
plot_bargraph(data, keys, id) == [id |-> id, data |-> data, keys |-> keys]

\* The section parse_reports appends.
JASection(data) ==
  [anchor |-> "rseqc_junction_annotation",
   event_plot |->
     plot_bargraph(data,
                   <<"known_splicing_events", "partial_novel_splicing_events",
                     "novel_splicing_events">>,
                   "rseqc_junction_annotation_events_plot"),
   junc_plot |->
     plot_bargraph(data,
                   <<"known_splicing_junctions",
                     "partial_novel_splicing_junctions",
                     "novel_splicing_junctions">>,
                   "rseqc_junction_annotation_junctions_plot")]

\* The loop has ended: the rest of parse_reports, and its caller's check.
JA_Finish ==
  /\ module = "rseqc" /\ pc = "loop"
  /\ pc' = "end"
  /\ IF JAHasData(junction_annotation_data)
       THEN /\ sample_count' = sample_count + DictLen(junction_annotation_data)
            /\ info_log' = Append(info_log, DictLen(junction_annotation_data))
            /\ data_files' =
                 Append(data_files,
                        [name |-> "multiqc_rseqc_junction_annotation",
                         data |-> junction_annotation_data])
            /\ sections' = Append(sections, JASection(junction_annotation_data))
       ELSE UNCHANGED <<sample_count, info_log, data_files, sections>>
  /\ err' = IF rseqc_nothing_found(sample_count') THEN "UserWarning" ELSE ""
  /\ UNCHANGED <<module, ignore, nfiles, junction_annotation_data,
                 verifybamid_data, hide_chip_columns, headers, parsed_data,
                 debug_log, data_sources, general_stats, yielded, latest,
                 chip_value_seen, ja_text, ja_out, sm_file, sm_out>>

\* The header lines and the data lines of the selfSM files find_log_files
\* may hand to the module, each line as its tab-separated tokens.
H_chip ==
  <<"#SEQ_ID", "RG", "CHIP", "FREE_RH", "FREE_RA", "DPREF", "RDPHET", "RDPALT">>
H_short == <<"#SEQ_ID", "CHIP_ID">>

VBHeaders == {H_chip, H_short}

\* The cells of FREE_RH, FREE_RA, DPREF, RDPHET, RDPALT in a full row.
NAPatterns ==
  { <<"NA", "NA", "NA", "NA", "NA">>,
    <<"0.02", "NA", "NA", "NA", "NA">> }

VBNameTokens == {"X", "Y"}

VBRows ==
  {<<n, "ALL", c>> \o p : n \in VBNameTokens, c \in {"NA", "0.02"},
                           p \in NAPatterns}
    \cup {<<n, "0.02">> : n \in VBNameTokens}
    \cup {<<"">>}

\* f['root'] of every file.
Root == "."

\* "for f in self.find_log_files('verifybamid/selfsm')": the next file, and
\* parse_selfsm up to its loop over the lines.
VB_NextFile ==
  /\ module = "verifybamid" /\ pc = "loop" /\ nfiles < MaxFiles
  /\ nfiles' = nfiles + 1
  /\ pc' = "parse"
  /\ headers' = ParseStart(hide_chip_columns).headers
  /\ parsed_data' = ParseStart(hide_chip_columns).parsed_data
  /\ UNCHANGED <<module, ignore, err, junction_annotation_data, sample_count,
                 verifybamid_data, hide_chip_columns, debug_log, info_log,
                 data_sources, data_files, general_stats, sections, yielded,
                 latest, chip_value_seen, ja_text, ja_out, sm_file, sm_out>>

Min(a, b) == IF a < b THEN a ELSE b

\* One line of the file in parse_selfsm, s its tokens.
VB_Line(s) ==
  /\ module = "verifybamid" /\ pc = "parse"
  /\ LET st == ParseLine([headers |-> headers, parsed_data |-> parsed_data,
                          hide |-> hide_chip_columns, err |-> FALSE], s, Root)
     IN  /\ headers' = st.headers
         /\ parsed_data' = st.parsed_data
         /\ hide_chip_columns' = st.hide
         /\ IF st.err
              THEN pc' = "end" /\ err' = "IndexError"
              ELSE UNCHANGED <<pc, err>>
  /\ chip_value_seen' =
       (chip_value_seen
          \/ (headers # NoHeaders
                /\ \E i \in 2..Min(Len(s), Len(headers)) :
                      headers[i] = "CHIP" /\ s[i] # "NA"))
  /\ UNCHANGED <<module, ignore, nfiles, junction_annotation_data,
                 sample_count, verifybamid_data, debug_log, info_log,
                 data_sources, data_files, general_stats, sections, yielded,
                 latest, ja_text, ja_out, sm_file, sm_out>>

\* The sample names "if s_name in self.verifybamid_data" finds.
Duplicates(data, parsed) == DOMAIN parsed \cap DOMAIN data

\* self.verifybamid_data[s_name] = parsed_data[s_name], for each s_name.
VBMerge(data, parsed) ==
  [n \in DOMAIN data \cup DOMAIN parsed |->
     IF n \in DOMAIN parsed THEN parsed[n] ELSE data[n]]

\* The lines are exhausted: parse_selfsm returns, and __init__ merges.
VB_Merge ==
  /\ module = "verifybamid" /\ pc = "parse"
  /\ pc' = "loop"
  /\ debug_log' =
       [n \in Names |->
          IF n \in Duplicates(verifybamid_data, parsed_data)
            THEN debug_log[n] + 1 ELSE debug_log[n]]
  /\ verifybamid_data' = VBMerge(verifybamid_data, parsed_data)
  /\ data_sources' = data_sources + 1
  /\ yielded' =
       [n \in Names |->
          IF n \in DOMAIN parsed_data THEN yielded[n] + 1 ELSE yielded[n]]
  /\ latest' =
       [n \in DOMAIN latest \cup DOMAIN parsed_data |->
          IF n \in DOMAIN parsed_data THEN parsed_data[n] ELSE latest[n]]
  /\ headers' = NoHeaders
  /\ parsed_data' = EmptyDict
  /\ UNCHANGED <<module, ignore, err, nfiles, junction_annotation_data,
                 sample_count, hide_chip_columns, info_log, data_files,
                 general_stats, sections, chip_value_seen, ja_text, ja_out,
                 sm_file, sm_out>>

\* Mutant of VBNothingFound: the empty dataset is not checked for.
VBNothingFound_never(data) == FALSE

\* "if len(self.verifybamid_data) == 0: raise UserWarning"
VBNothingFound(data) == DictLen(data) = 0

\* The columns of the detail table that carry 'hidden'.
ChipCols == {"CHIP_ID", "CHIPMIX", "CHIPLK1", "CHIPLK0", "CHIP_RH", "CHIP_RA"}
NACols == {"FREE_RH", "FREE_RA", "DPREF", "RDPHET", "RDPALT"}

\* s[col] raises KeyError for some record s of the dataset.
TableKeyError(data) ==
  \E n \in DOMAIN data : \E c \in {"RG"} \cup NACols : c \notin DOMAIN data[n]

\* Mutant of AllEqual: any() in place of all().
AllEqual_any(data, col, lit) ==
  \E n \in DOMAIN data : data[n][col] = StrValue(lit)

\* all( [ s[col] == lit for s in self.verifybamid_data.values() ] )
AllEqual(data, col, lit) == \A n \in DOMAIN data : data[n][col] = StrValue(lit)

\* 'hidden' of each column of verifybamid_table.
TableHidden(data, hide) ==
  [c \in {"RG"} \cup ChipCols \cup NACols |->
     IF c = "RG" THEN AllEqual(data, c, "ALL")
     ELSE IF c \in ChipCols THEN hide
     ELSE AllEqual(data, c, "NA")]

\* verifybamid_general_stats_table: what general_stats_addcols is given.
GeneralStats(data, hide) ==
  [data |-> data, hidden |-> [c \in {"CHIPMIX"} |-> hide]]

\* The loop over the files has ended: the rest of __init__.
VB_Finish ==
  /\ module = "verifybamid" /\ pc = "loop"
  /\ pc' = "end"
  /\ LET filtered == ignore_samples(verifybamid_data, ignore)
         shown == filtered
     IN  /\ verifybamid_data' = filtered
         /\ IF VBNothingFound(filtered)
              THEN /\ err' = "UserWarning"
                   /\ UNCHANGED <<info_log, data_files, general_stats, sections>>
              ELSE /\ info_log' = Append(info_log, DictLen(filtered))
                   /\ data_files' =
                        Append(data_files,
                               [name |-> "multiqc_verifybamid", data |-> filtered])
                   /\ general_stats' =
                        Append(general_stats,
                               GeneralStats(filtered, hide_chip_columns))
                   /\ IF TableKeyError(shown)
                        THEN err' = "KeyError" /\ UNCHANGED sections
                        ELSE /\ err' = ""
                             /\ sections' =
                                  Append(sections,
                                         [anchor |-> "verifybamid-table",
                                          data |-> shown,
                                          hidden |->
                                            TableHidden(shown, hide_chip_columns)])
  /\ UNCHANGED <<module, ignore, nfiles, junction_annotation_data,
                 sample_count, hide_chip_columns, headers, parsed_data,
                 debug_log, data_sources, yielded, latest, chip_value_seen,
                 ja_text, ja_out, sm_file, sm_out>>

Init ==
  /\ \E m \in {"rseqc", "verifybamid"} : \E ig \in IgnoreLists :
       InitPipeline(m, ig)
  /\ ja_text = <<>>
  /\ ja_out = Pending
  /\ sm_file = [root |-> Root, lines |-> <<>>]
  /\ sm_out = Pending

Next ==
  \/ \E n \in JANames : \E t \in JATexts : JA_File(n, t)
  \/ JA_Finish
  \/ VB_NextFile
  \/ \E s \in (IF headers = NoHeaders THEN VBHeaders ELSE VBRows) : VB_Line(s)
  \/ VB_Merge
  \/ VB_Finish

Spec == Init /\ [][Next]_vars

\* ================================================================ claims
\* ---------------------------------------------------------------- SpecJA
\* C4: computing the *_pct fields never divides by zero and never raises,
\* whatever the report, one whose matched total is 0 included.
C4_NoDivisionError == ja_out.done => ~ja_out.err

\* The fields the patterns extracted from the report.
Extracted == {k \in JAKeySet : re_search(k, ja_text) # NoMatch}

\* C5: in every record, <part>_pct is present if and only if the total of
\* its group and the part were both extracted from the file, and its value
\* is then (part / total) * 100; without total_splicing_junctions there is
\* no *_junctions_pct key.
C5_PctIffTotalAndPart ==
  (ja_out.done /\ ~ja_out.err) =>
    \A g \in 1..Len(JAGroups) : \A j \in 1..Len(JAGroups[g].parts) :
      LET d == ja_out.d
          total == JAGroups[g].total
          part == JAGroups[g].parts[j].part
          pct == JAGroups[g].parts[j].pct
      IN  /\ pct \in DOMAIN d <=> (total \in Extracted /\ part \in Extracted)
          /\ pct \in DOMAIN d =>
                /\ d[total] # 0
                /\ d[pct].den > 0
                /\ d[pct].num * re_search(total, ja_text)
                     = re_search(part, ja_text) * 100 * d[pct].den

\* A report that gives known_splicing_events_pct = 40 (40 of 100), and a
\* junctions part without its total, hence no junctions percentage.
C5_Witness ==
  /\ ja_out.done /\ ~ja_out.err
  /\ "known_splicing_events_pct" \in DOMAIN ja_out.d
  /\ ja_out.d["known_splicing_events_pct"] = [num |-> 40, den |-> 1]
  /\ "known_splicing_junctions" \in DOMAIN ja_out.d
  /\ "total_splicing_junctions" \notin DOMAIN ja_out.d
  /\ "known_splicing_junctions_pct" \notin DOMAIN ja_out.d

\* ------------------------------------------------------------ SpecSelfSM
\* The header row and the data rows (as positions in the file) of sm_file.
SMHeader == sm_file.lines[1]
SMDataRows == 2..Len(sm_file.lines)
SMKey(r) == clean_s_name(sm_file.lines[r][1], sm_file.root)

\* The value val is token t as the claim has it stored: a number exactly
\* when t parses as a float, otherwise the unchanged literal string.
StoredAs(val, t) ==
  /\ val.kind = "float" <=> float_repr(t) # "ValueError"
  /\ val.kind = "float" => val.v = float_repr(t)
  /\ val.kind # "float" => val = StrValue(t)
  /\ t = "NA" => val = StrValue("NA")

\* C7 as stated: for a file whose data rows have as many tokens as the
\* header, parse_selfsm returns one record per data row, keyed by the cleaned
\* first token; the record maps each header name at position i >= 1 to the
\* row's i-th token and has no entry for the first header column; a token is
\* stored as a number when it parses as a float, else as the literal string.
C7_OneRecordPerRow ==
  (sm_out.done /\ ~sm_out.err /\ Len(sm_file.lines) > 0) =>
    /\ Cardinality(DOMAIN sm_out.parsed_data) = Cardinality(SMDataRows)
    /\ \A r \in SMDataRows :
         /\ SMKey(r) \in DOMAIN sm_out.parsed_data
         /\ LET rec == sm_out.parsed_data[SMKey(r)]
            IN  /\ DOMAIN rec \subseteq {SMHeader[i] : i \in 2..Len(SMHeader)}
                /\ \A i \in 2..Len(SMHeader) :
                     /\ SMHeader[i] \in DOMAIN rec
                     /\ StoredAs(rec[SMHeader[i]], sm_file.lines[r][i])

\* The last data row with cleaned name k, the last column named h.
LastRow(k) ==
  CHOOSE r \in SMDataRows :
    SMKey(r) = k /\ \A q \in SMDataRows : SMKey(q) = k => q <= r
LastCol(h) ==
  CHOOSE i \in 2..Len(SMHeader) :
    SMHeader[i] = h /\ \A j \in 2..Len(SMHeader) : SMHeader[j] = h => j <= i

\* C7 as amended: parse_selfsm returns one record per distinct cleaned first
\* token, built from the last data row with that cleaned name; the keys of the
\* record are exactly the header names at positions i >= 1, each mapped to the
\* row's token at the last position that carries the name; a token is stored
\* as a number when it parses as a float, else as the unchanged literal
\* string, so "NA" stays the string "NA".
C7_OneRecordPerName ==
  (sm_out.done /\ ~sm_out.err /\ Len(sm_file.lines) > 0) =>
    /\ DOMAIN sm_out.parsed_data = {SMKey(r) : r \in SMDataRows}
    /\ \A k \in DOMAIN sm_out.parsed_data :
         LET rec == sm_out.parsed_data[k]
         IN  /\ DOMAIN rec = {SMHeader[i] : i \in 2..Len(SMHeader)}
             /\ \A h \in DOMAIN rec :
                  StoredAs(rec[h], sm_file.lines[LastRow(k)][LastCol(h)])

\* Two rows whose names clean to "X": the record of "X" is the second row's,
\* with FREEMIX the number 1.0 and CHIP the string "NA".
C7_Witness ==
  /\ sm_out.done /\ ~sm_out.err
  /\ sm_file.lines = <<<<"#SEQ_ID", "FREEMIX", "CHIP">>, <<"X.bam", "NA", "1">>,
                       <<"X", "1", "NA">>>>
  /\ DOMAIN sm_out.parsed_data = {"X"}
  /\ sm_out.parsed_data["X"]["FREEMIX"] = FloatValue("1.0")
  /\ sm_out.parsed_data["X"]["CHIP"] = StrValue("NA")

\* ------------------------------------------------------------------ Spec
\* The SampleDataset of the module invoked.
Dataset ==
  IF module = "rseqc" THEN junction_annotation_data ELSE verifybamid_data

\* The invocation has ended, and not inside the loop over the files.
AllFilesProcessed == pc = "end" /\ err \notin {"IndexError", "ZeroDivisionError"}

\* C1: when two (or more) files yield the same sample name, the final dataset
\* holds one entry for it (unless the name is ignored), with the values of the
\* file processed last, and one duplicate diagnostic was logged per collision.
C1_DuplicateOverwritesAndLogs ==
  AllFilesProcessed =>
    \A n \in Names :
      yielded[n] >= 2 =>
        /\ debug_log[n] = yielded[n] - 1
        /\ n \notin ignore => (n \in DOMAIN Dataset /\ Dataset[n] = latest[n])

\* C2: the chip columns are hidden from the start and for as long as no
\* processed row held a value other than "NA" in a value column named "CHIP";
\* they are shown from the first such row on, and never hidden again.
C2_ChipFlagSetOnceByChipValue ==
  /\ [](hide_chip_columns = ~chip_value_seen)
  /\ [][hide_chip_columns = FALSE => hide_chip_columns' = FALSE]_vars

\* The flag was set in the first file, and a row of the second file with "NA"
\* under CHIP has been processed since.
C2_Witness ==
  /\ module = "verifybamid" /\ pc = "parse" /\ nfiles = 2
  /\ ~hide_chip_columns
  /\ \E n \in DOMAIN verifybamid_data :
       /\ "CHIP" \in DOMAIN verifybamid_data[n]
       /\ verifybamid_data[n]["CHIP"] = FloatValue("0.02")
  /\ \E n \in DOMAIN parsed_data :
       /\ "CHIP" \in DOMAIN parsed_data[n]
       /\ parsed_data[n]["CHIP"] = StrValue("NA")

\* C3: when the dataset is empty after all files, the invocation ends with
\* the "nothing found" signal (UserWarning), no data file is written and no
\* table, plot or section is emitted.
C3_EmptyDatasetAborts ==
  (AllFilesProcessed /\ DictLen(Dataset) = 0) =>
    /\ err = "UserWarning"
    /\ data_files = <<>>
    /\ general_stats = <<>>
    /\ sections = <<>>

\* A sample was found and merged, and the ignore filter removed it.
C3_Witness ==
  /\ module = "verifybamid" /\ pc = "end" /\ err = "UserWarning"
  /\ yielded["X"] > 0
  /\ "X" \in ignore
  /\ DictLen(verifybamid_data) = 0
  /\ data_files = <<>> /\ sections = <<>>

\* C6: a VerifyBAMID invocation completes or ends with the "nothing found"
\* signal, whatever the selfSM input; it ends with no other uncaught error.
C6_NoOtherUncaughtError ==
  module = "verifybamid" => err \in {"", "UserWarning"}

\* C8: in the detail table, each of FREE_RH, FREE_RA, DPREF, RDPHET, RDPALT is
\* hidden if and only if every record of the final dataset holds the string
\* "NA" for it.
C8_HiddenIffAllNA ==
  \A i \in 1..Len(sections) :
    sections[i].anchor = "verifybamid-table" =>
      \A c \in NACols :
        sections[i].hidden[c] <=>
          (\A n \in DOMAIN verifybamid_data :
             verifybamid_data[n][c] = StrValue("NA"))

\* A table over two samples, one with a number and one with "NA" under
\* FREE_RH: FREE_RH is shown for both, FREE_RA (all "NA") is hidden.
C8_Witness ==
  /\ module = "verifybamid" /\ pc = "end" /\ err = ""
  /\ Len(sections) = 1
  /\ DOMAIN verifybamid_data = {"X", "Y"}
  /\ verifybamid_data["X"]["FREE_RH"] = FloatValue("0.02")
  /\ verifybamid_data["Y"]["FREE_RH"] = StrValue("NA")
  /\ ~sections[1].hidden["FREE_RH"]
  /\ sections[1].hidden["FREE_RA"]

\* The dataset a section renders.
SectionData(sec) ==
  IF sec.anchor = "verifybamid-table" THEN sec.data ELSE sec.event_plot.data

\* C9: the data file is written and the report rendered at most once, after
\* the ignore filter: no ignored sample name is persisted or rendered.
C9_IgnoredNeverEmitted ==
  /\ Len(data_files) <= 1
  /\ Len(sections) <= 1
  /\ \A i \in 1..Len(data_files) : DOMAIN data_files[i].data \cap ignore = {}
  /\ \A i \in 1..Len(general_stats) :
       DOMAIN general_stats[i].data \cap ignore = {}
  /\ \A i \in 1..Len(sections) : DOMAIN SectionData(sections[i]) \cap ignore = {}

\* C10: when an invocation has emitted its tables with the chip columns
\* shown, some record of the final dataset holds a value other than "NA"
\* under CHIP.
C10_ChipShownOnlyWithChipData ==
  (module = "verifybamid" /\ pc = "end" /\ err = "") =>
    \A i \in 1..Len(general_stats) :
      ~general_stats[i].hidden["CHIPMIX"] =>
        \E n \in DOMAIN verifybamid_data :
          /\ "CHIP" \in DOMAIN verifybamid_data[n]
          /\ verifybamid_data[n]["CHIP"] # StrValue("NA")

====
